---- MODULE Spec2Model ----
(***************************************************************************)
(* Model of the SQLite data access layer of the expense bot (src/db.py).   *)
(*                                                                         *)
(* The database is one table, `expenses`, whose rowid alias `id` is        *)
(* declared INTEGER PRIMARY KEY AUTOINCREMENT.  Every public function of   *)
(* db.py opens a connection, runs _ensure_schema and one SQL statement.    *)
(* Each function is one action here; its SQL is translated clause by       *)
(* clause (WHERE, LIKE, COALESCE, NULLIF, SUM, GROUP BY, ORDER BY, LIMIT). *)
(*                                                                         *)
(* Text values that the SQL inspects character by character (the date and  *)
(* the LIKE pattern) are sequences of one-character strings.  A nullable   *)
(* SQL value is a sequence of length at most one: <<>> is NULL and <<v>>   *)
(* is the value v.                                                         *)
(***************************************************************************)
EXTENDS Integers, Sequences, FiniteSets, TLC

----------------------------------------------------------------------------
(* Bounds of the model *)

\* AUTOINCREMENT ids handed out before the model stops inserting.
MaxId == 3

\* Telegram user ids (message.from_user.id).
KnownUsers == {1, 2}

\* Arguments of the month queries.
Years == {2024}
Months == {3, 4}

----------------------------------------------------------------------------
(* Text *)

Digits == <<"0", "1", "2", "3", "4", "5", "6", "7", "8", "9">>

RECURSIVE DecDigits(_)
\* Decimal digits of a natural number, most significant first.
DecDigits(n) ==
    IF n < 10 THEN <<Digits[n + 1]>>
    ELSE DecDigits(n \div 10) \o <<Digits[(n % 10) + 1]>>

RECURSIVE ZeroFill(_, _)
ZeroFill(s, width) ==
    IF Len(s) >= width THEN s ELSE ZeroFill(<<"0">> \o s, width)

\* Mutant of FormatD: the width is ignored ({n:d}).
FormatD_NoPadding(n, width) ==
    IF n >= 0 THEN DecDigits(n) ELSE <<"-">> \o DecDigits(-n)

\* Python's format spec 0{width}d: sign first, then zeros up to the width.
FormatD(n, width) ==
    IF n >= 0 THEN ZeroFill(DecDigits(n), width)
    ELSE <<"-">> \o ZeroFill(DecDigits(-n), width - 1)

\* ym_prefix = f"{year:04d}-{month:02d}-"
YmPrefix(year, month) ==
    FormatD(year, 4) \o <<"-">> \o FormatD(month, 2) \o <<"-">>

\* The bound parameter f"{ym_prefix}%"
YmPattern(year, month) == YmPrefix(year, month) \o <<"%">>

RECURSIVE Like(_, _)
\* SQL `s LIKE pat`: % matches any run of characters, _ exactly one.
\* (SQLite folds ASCII letter case; dates and patterns hold no letters.)
Like(s, pat) ==
    IF pat = <<>> THEN s = <<>>
    ELSE IF Head(pat) = "%"
         THEN Like(s, Tail(pat)) \/ (s # <<>> /\ Like(Tail(s), pat))
    ELSE IF Head(pat) = "_"
         THEN s # <<>> /\ Like(Tail(s), Tail(pat))
    ELSE s # <<>> /\ Head(s) = Head(pat) /\ Like(Tail(s), Tail(pat))

\* Date strings used as inputs.  The last one is not zero-padded.
D0301 == <<"2", "0", "2", "4", "-", "0", "3", "-", "0", "1">>
D0315 == <<"2", "0", "2", "4", "-", "0", "3", "-", "1", "5">>
D0401 == <<"2", "0", "2", "4", "-", "0", "4", "-", "0", "1">>
D3x01 == <<"2", "0", "2", "4", "-", "3", "-", "0", "1">>

\* Arguments of get_expenses_by_date.
QueryDates == {D0301, D0401}

----------------------------------------------------------------------------
(* SQL values *)

NULL == <<>>

\* COALESCE(x, d)
Coalesce(x, d) == IF x # NULL THEN x ELSE d

\* NULLIF(x, y)
NullIf(x, y) == IF x = y THEN NULL ELSE x

\* Arguments (item, amount, date_str, category) add_expense is called with.
\* The store is a public API: negative amounts and empty items are inputs
\* it can receive.
ExpenseInputs ==
    { [item |-> "non",   amount |-> 1,  date |-> D0301, category |-> NULL],
      [item |-> "qahva", amount |-> 2,  date |-> D0315, category |-> <<"">>],
      [item |-> "taksi", amount |-> 1,  date |-> D0301, category |-> <<"transport">>],
      [item |-> "ijara", amount |-> 2,  date |-> D0401, category |-> <<"uy">>],
      [item |-> "",      amount |-> 1,  date |-> D3x01, category |-> NULL],
      [item |-> "qarz",  amount |-> -1, date |-> D0301, category |-> NULL] }

\* The inputs each user sends: user 1 all of them, user 2 two of them.
InputsOf(u) ==
    IF u = 1 THEN ExpenseInputs
    ELSE {e \in ExpenseInputs : e.item \in {"non", "ijara"}}

----------------------------------------------------------------------------
(* State *)

VARIABLES
    cols,     \* columns of table expenses; {} while the table does not exist
    rows,     \* the rows of table expenses
    seq,      \* sqlite_sequence.seq of expenses: largest rowid ever assigned
    issued,   \* history: every id the store has assigned so far
    op,       \* the last call of a public function, with its arguments
    ret,      \* what that call returned
    task,     \* the invocations running on worker threads (asyncio.to_thread)
    writer,   \* the invocation holding the database's write lock, 0 if none
    main,     \* where bot.py's main() stands
    reply,    \* the last answer a handler of bot.py sent
    conns     \* the number of sqlite3 connections that are open

vars == <<cols, rows, seq, issued, op, ret, task, writer, main, reply, conns>>

\* What the calls made directly on the store leave alone.
frontEnd == <<task, writer, main, reply, conns>>

\* Python return values
None == [type |-> "None"]
PyInt(n) == [type |-> "int", v |-> n]
PyList(s) == [type |-> "list", v |-> s]
PyTuple(t) == [type |-> "tuple", v |-> t]

----------------------------------------------------------------------------
(* Schema *)

BaseColumns == {"id", "user_id", "item", "amount", "date"}

\* CREATE TABLE IF NOT EXISTS, then ADD COLUMN category when it is missing.
EnsureSchema(c) ==
    LET created == IF c = {} THEN BaseColumns ELSE c
    IN  IF "category" \notin created THEN created \cup {"category"} ELSE created

\* Mutant of AddColumn: ADD COLUMN category TEXT DEFAULT ''.
AddColumn_DefaultEmpty(r) ==
    [id |-> r.id, user_id |-> r.user_id, item |-> r.item,
     amount |-> r.amount, date |-> r.date, category |-> <<"">>]

\* ALTER TABLE expenses ADD COLUMN category TEXT: a row written before the
\* column existed reads NULL in it.
AddColumn(r) ==
    [id |-> r.id, user_id |-> r.user_id, item |-> r.item,
     amount |-> r.amount, date |-> r.date, category |-> NULL]

\* The rows of the table once _ensure_schema has run on columns c.
SchemaRows(c, t) ==
    IF c # {} /\ "category" \notin c THEN {AddColumn(r) : r \in t} ELSE t

----------------------------------------------------------------------------
(* Queries over a table t (a set of rows) *)

Max(a, b) == IF a >= b THEN a ELSE b

Ids(t) == {r.id : r \in t}

\* Mutant of OfUser: the WHERE clause is missing.
OfUser_Everyone(t, u) == t

\* WHERE user_id = ?
OfUser(t, u) == {r \in t : r.user_id = u}

\* WHERE user_id = ? AND date LIKE ?
OfMonth(t, u, year, month) ==
    {r \in t : r.user_id = u /\ Like(r.date, YmPattern(year, month))}

RECURSIVE OrderByIdAsc(_)
\* ORDER BY id ASC
OrderByIdAsc(t) ==
    IF t = {} THEN <<>>
    ELSE LET first == CHOOSE r \in t : \A q \in t : r.id <= q.id
         IN  <<first>> \o OrderByIdAsc(t \ {first})

\* [(row["item"], int(row["amount"]), row["date"]) for row in cur.fetchall()]
ItemAmountDate(s) == [i \in 1..Len(s) |-> <<s[i].item, s[i].amount, s[i].date>>]

\* SELECT item, amount, date ... WHERE user_id = ? AND date = ? ORDER BY id ASC
ListByDate(t, u, d) ==
    ItemAmountDate(OrderByIdAsc({r \in OfUser(t, u) : r.date = d}))

RECURSIVE SqlSum(_)
\* SUM(amount): NULL over no rows
SqlSum(t) ==
    IF t = {} THEN NULL
    ELSE LET r == CHOOSE r \in t : TRUE
             rest == SqlSum(t \ {r})
         IN  <<r.amount + (IF rest = NULL THEN 0 ELSE rest[1])>>

\* SELECT COALESCE(SUM(amount), 0) ...; return int(row[0] or 0)
MonthTotal(t, u, year, month) ==
    LET row0 == Coalesce(SqlSum(OfMonth(t, u, year, month)), <<0>>)[1]
    IN  IF row0 # 0 THEN row0 ELSE 0

RECURSIVE OrderByIdDesc(_)
\* ORDER BY id DESC
OrderByIdDesc(t) ==
    IF t = {} THEN <<>>
    ELSE LET first == CHOOSE r \in t : \A q \in t : r.id >= q.id
         IN  <<first>> \o OrderByIdDesc(t \ {first})

\* Mutant of ListAll: ORDER BY id DESC.
ListAll_Descending(t, u) == ItemAmountDate(OrderByIdDesc(OfUser(t, u)))

\* SELECT item, amount, date ... WHERE user_id = ? ORDER BY id ASC
ListAll(t, u) == ItemAmountDate(OrderByIdAsc(OfUser(t, u)))

\* Mutant of LastExpense: ORDER BY id ASC LIMIT 1.
LastExpense_Ascending(t, u) ==
    LET s == OrderByIdAsc(OfUser(t, u))
    IN  IF s = <<>> THEN None
        ELSE PyTuple(<<s[1].id, s[1].item, s[1].amount, s[1].date, s[1].category>>)

\* SELECT id, item, amount, date, category ... WHERE user_id = ?
\* ORDER BY id DESC LIMIT 1; None when fetchone() gives no row
LastExpense(t, u) ==
    LET s == OrderByIdDesc(OfUser(t, u))
    IN  IF s = <<>> THEN None
        ELSE PyTuple(<<s[1].id, s[1].item, s[1].amount, s[1].date, s[1].category>>)

\* Mutant of Cat: COALESCE(category, 'Boshqa'), the empty string kept.
Cat_NoNullIf(r) == Coalesce(r.category, <<"Boshqa">>)[1]

\* COALESCE(NULLIF(category, ''), 'Boshqa') AS cat
Cat(r) == Coalesce(NullIf(r.category, <<"">>), <<"Boshqa">>)[1]

\* Mutant of CategoryGroups: SUM(DISTINCT amount).
CategoryGroups_SumDistinct(t, u, year, month) ==
    LET m == OfMonth(t, u, year, month)
    IN  { <<c, Coalesce(SqlSum({[amount |-> a] :
                                   a \in {r.amount : r \in {q \in m : Cat(q) = c}}}),
                        <<0>>)[1]>> :
            c \in {Cat(r) : r \in m} }

\* GROUP BY cat with COALESCE(SUM(amount), 0) AS total: one (cat, total) per
\* category present among the month's rows.
CategoryGroups(t, u, year, month) ==
    LET m == OfMonth(t, u, year, month)
    IN  { <<c, Coalesce(SqlSum({r \in m : Cat(r) = c}), <<0>>)[1]>> :
            c \in {Cat(r) : r \in m} }

RECURSIVE Arrangements(_)
Arrangements(S) ==
    IF S = {} THEN {<<>>}
    ELSE UNION { {<<x>> \o p : p \in Arrangements(S \ {x})} : x \in S }

\* ORDER BY total DESC.  The statement names no further sort key and SQL
\* leaves the order of rows with equal keys unspecified, so every
\* arrangement with non-increasing totals is a result the query may give.
OrderByTotalDesc(g) ==
    { s \in Arrangements(g) :
        \A i \in 1..Len(s) : \A j \in 1..Len(s) : i < j => s[i][2] >= s[j][2] }

\* The result sets of get_month_category_totals
MonthCategoryTotals(t, u, year, month) ==
    OrderByTotalDesc(CategoryGroups(t, u, year, month))

----------------------------------------------------------------------------
(* Writes *)

\* Mutant of NewRowid: a rowid table without AUTOINCREMENT, where the new
\* rowid is one more than the largest rowid now in the table.
NewRowid_NoAutoincrement(t, s) ==
    (IF t = {} THEN 0 ELSE (CHOOSE r \in t : \A q \in t : r.id >= q.id).id) + 1

\* Rowid of an AUTOINCREMENT table: one more than the largest rowid the
\* table has ever held (sqlite_sequence), whatever has been deleted since.
NewRowid(t, s) ==
    LET inTable == IF t = {} THEN 0
                   ELSE (CHOOSE r \in t : \A q \in t : r.id >= q.id).id
    IN  Max(inTable, s) + 1

\* INSERT INTO expenses (user_id, item, amount, date, category) VALUES (...)
\* The statement binds the arguments as given: nothing checks item or amount.
InsertRow(t, s, u, e) ==
    t \cup { [id |-> NewRowid(t, s), user_id |-> u, item |-> e.item,
              amount |-> e.amount, date |-> e.date, category |-> e.category] }

\* Mutant of DeleteMatching: WHERE id = ? alone.
DeleteMatching_AnyOwner(t, u, id) == {r \in t : r.id # id}

\* DELETE FROM expenses WHERE user_id = ? AND id = ?
DeleteMatching(t, u, id) == {r \in t : ~(r.user_id = u /\ r.id = id)}

\* Mutant of DeleteOfUser: DELETE FROM expenses, no WHERE clause.
DeleteOfUser_NoWhere(t, u) == {}

\* DELETE FROM expenses WHERE user_id = ?
DeleteOfUser(t, u) == {r \in t : r.user_id # u}

\* cur.rowcount or 0
RowCount(before, after) ==
    LET n == Cardinality(before \ after) IN IF n # 0 THEN n ELSE 0

----------------------------------------------------------------------------
(* The public functions of db.py, one action each *)

\* No worker thread is running and main() has not started.
Idle == [pc |-> "idle"]

\* No handler has answered yet.
NoReply == [to |-> "none", kind |-> "none"]

Tasks == {1, 2}

FrontEndInit ==
    /\ task = [t \in Tasks |-> Idle]
    /\ writer = 0
    /\ main = "boot"
    /\ reply = NoReply
    /\ conns = 0

Init ==
    /\ cols = {}
    /\ rows = {}
    /\ seq = 0
    /\ issued = {}
    /\ op = [name |-> "start"]
    /\ ret = None
    /\ FrontEndInit

InitDb ==
    /\ cols' = EnsureSchema(cols)
    /\ rows' = SchemaRows(cols, rows)
    /\ op' = [name |-> "init_db"]
    /\ ret' = None
    /\ UNCHANGED <<seq, issued, frontEnd>>

AddExpense(u, e) ==
    /\ seq < MaxId
    /\ cols' = EnsureSchema(cols)
    /\ rows' = InsertRow(SchemaRows(cols, rows), seq, u, e)
    /\ seq' = NewRowid(rows, seq)
    /\ issued' = issued \cup {NewRowid(rows, seq)}
    /\ op' = [name |-> "add_expense", user_id |-> u, item |-> e.item,
              amount |-> e.amount, date_str |-> e.date, category |-> e.category]
    /\ ret' = None
    /\ UNCHANGED frontEnd

GetAllExpenses(u) ==
    /\ cols' = EnsureSchema(cols)
    /\ rows' = SchemaRows(cols, rows)
    /\ op' = [name |-> "get_all_expenses", user_id |-> u]
    /\ ret' = PyList(ListAll(rows', u))
    /\ UNCHANGED <<seq, issued, frontEnd>>

GetExpensesByDate(u, d) ==
    /\ cols' = EnsureSchema(cols)
    /\ rows' = SchemaRows(cols, rows)
    /\ op' = [name |-> "get_expenses_by_date", user_id |-> u, date_str |-> d]
    /\ ret' = PyList(ListByDate(rows', u, d))
    /\ UNCHANGED <<seq, issued, frontEnd>>

GetMonthTotal(u, year, month) ==
    /\ cols' = EnsureSchema(cols)
    /\ rows' = SchemaRows(cols, rows)
    /\ op' = [name |-> "get_month_total", user_id |-> u,
              year |-> year, month |-> month]
    /\ ret' = PyInt(MonthTotal(rows', u, year, month))
    /\ UNCHANGED <<seq, issued, frontEnd>>

GetLastExpense(u) ==
    /\ cols' = EnsureSchema(cols)
    /\ rows' = SchemaRows(cols, rows)
    /\ op' = [name |-> "get_last_expense", user_id |-> u]
    /\ ret' = LastExpense(rows', u)
    /\ UNCHANGED <<seq, issued, frontEnd>>

DeleteExpense(u, id) ==
    /\ cols' = EnsureSchema(cols)
    /\ rows' = DeleteMatching(SchemaRows(cols, rows), u, id)
    /\ op' = [name |-> "delete_expense", user_id |-> u, expense_id |-> id]
    /\ ret' = PyInt(RowCount(rows, DeleteMatching(rows, u, id)))
    /\ UNCHANGED <<seq, issued, frontEnd>>

GetMonthCategoryTotals(u, year, month) ==
    /\ cols' = EnsureSchema(cols)
    /\ rows' = SchemaRows(cols, rows)
    /\ op' = [name |-> "get_month_category_totals", user_id |-> u,
              year |-> year, month |-> month]
    /\ \E result \in MonthCategoryTotals(rows', u, year, month) :
          ret' = PyList(result)
    /\ UNCHANGED <<seq, issued, frontEnd>>

DeleteAllExpenses(u) ==
    /\ cols' = EnsureSchema(cols)
    /\ rows' = DeleteOfUser(SchemaRows(cols, rows), u)
    /\ op' = [name |-> "delete_all_expenses", user_id |-> u]
    /\ ret' = PyInt(RowCount(rows, DeleteOfUser(rows, u)))
    /\ UNCHANGED <<seq, issued, frontEnd>>

Next ==
    \/ InitDb
    \/ \E u \in KnownUsers : \E e \in InputsOf(u) : AddExpense(u, e)
    \/ \E u \in KnownUsers : GetAllExpenses(u)
    \/ \E u \in KnownUsers : \E d \in QueryDates : GetExpensesByDate(u, d)
    \/ \E u \in KnownUsers : \E y \in Years : \E m \in Months :
          GetMonthTotal(u, y, m)
    \/ \E u \in KnownUsers : GetLastExpense(u)
    \/ \E u \in KnownUsers : \E id \in 1..MaxId : DeleteExpense(u, id)
    \/ \E u \in KnownUsers : \E y \in Years : \E m \in Months :
          GetMonthCategoryTotals(u, y, m)
    \/ \E u \in KnownUsers : DeleteAllExpenses(u)

Spec == Init /\ [][Next]_vars

----------------------------------------------------------------------------
(* The same calls on a database created before the category column *)

\* Rows of a table that has no category column.
Legacy(id, u, item, amount, d) ==
    [id |-> id, user_id |-> u, item |-> item, amount |-> amount, date |-> d]

LegacyLedgers ==
    { {Legacy(1, 1, "non", 1, D0301)},
      {Legacy(1, 1, "non", 1, D0301), Legacy(2, 2, "ijara", 2, D0401)} }

InitLegacy ==
    /\ cols = BaseColumns
    /\ rows \in LegacyLedgers
    /\ seq = Cardinality(rows)
    /\ issued = 1..Cardinality(rows)
    /\ op = [name |-> "start"]
    /\ ret = None
    /\ FrontEndInit

SpecLegacy == InitLegacy /\ [][Next]_vars

----------------------------------------------------------------------------
(* Invocations running concurrently on worker threads                      *)
(*                                                                         *)
(* asyncio.to_thread runs each _sync function on a thread of its own.  The *)
(* steps of one invocation are the database calls it makes: connect, the   *)
(* three statements of _ensure_schema, its own statement, the commit of    *)
(* `with conn`, the close of `closing(...)`, and the return to the awaiting *)
(* coroutine.  SQLite lets one connection write at a time: a statement     *)
(* that must write while another connection holds the write lock raises    *)
(* OperationalError once the busy timeout is over.  A transaction's        *)
(* changes reach the other connections when it commits.                    *)

\* The invocations the worker threads run.
ConcCalls ==
    { [name |-> "init_db"],
      [name |-> "add_expense", user_id |-> 1, item |-> "non", amount |-> 1,
       date_str |-> D0301, category |-> NULL],
      [name |-> "add_expense", user_id |-> 2, item |-> "ijara", amount |-> 2,
       date_str |-> D0401, category |-> <<"uy">>],
      [name |-> "delete_expense", user_id |-> 1, expense_id |-> 1],
      [name |-> "delete_all_expenses", user_id |-> 1],
      [name |-> "get_all_expenses", user_id |-> 1] }

\* The functions whose statement runs inside `with ... conn:` and writes.
IsWrite(c) == c.name \in {"add_expense", "delete_expense", "delete_all_expenses"}

\* Exceptions
Raised(what) == [type |-> "raised", v |-> what]
OperationalError == Raised("OperationalError")
DuplicateColumn == Raised("OperationalError: duplicate column name: category")

\* No statement of the transaction has changed anything.
NoChange == [changed |-> FALSE]

\* The (item, amount, date_str, category) of an add_expense call
ExpenseOf(c) ==
    [item |-> c.item, amount |-> c.amount, date |-> c.date_str,
     category |-> c.category]

\* The table after the statement of call c has run on table t.
StatementRows(c, t, s) ==
    CASE c.name = "add_expense" -> InsertRow(t, s, c.user_id, ExpenseOf(c))
      [] c.name = "delete_expense" -> DeleteMatching(t, c.user_id, c.expense_id)
      [] c.name = "delete_all_expenses" -> DeleteOfUser(t, c.user_id)
      [] OTHER -> t

\* sqlite_sequence after the statement of call c.
StatementSeq(c, t, s) ==
    IF c.name = "add_expense" THEN NewRowid(t, s) ELSE s

\* What the _sync function of call c returns after its statement.
StatementResult(c, t) ==
    CASE c.name = "add_expense" -> None
      [] c.name = "delete_expense" ->
            PyInt(RowCount(t, DeleteMatching(t, c.user_id, c.expense_id)))
      [] c.name = "delete_all_expenses" ->
            PyInt(RowCount(t, DeleteOfUser(t, c.user_id)))
      [] c.name = "get_all_expenses" -> PyList(ListAll(t, c.user_id))
      [] c.name = "get_last_expense" -> LastExpense(t, c.user_id)
      [] OTHER -> None

\* Mutant of LockFree: a statement writes whoever holds the write lock.
LockFree_NoLocking(t) == TRUE

\* The statement of invocation t may write: no other connection holds the
\* write lock.
LockFree(t) == writer \in {0, t}

\* Mutant of Committed: the connection is closed without a commit.
Committed_Never(db, pend) == db

\* conn.__exit__ without an exception: the pending changes of the
\* transaction become the database.
Committed(db, pend) ==
    IF pend.changed THEN [rows |-> pend.rows, seq |-> pend.seq] ELSE db

\* Mutant of Closed: the connection is closed on the success path only.
Closed_OnSuccessOnly(tr) ==
    [tr EXCEPT !.pc = "return", !.open = (tr.result.type = "raised")]

\* closing(...).__exit__: conn.close(), with or without an exception.
Closed(tr) == [tr EXCEPT !.pc = "return", !.open = FALSE]

\* Mutant of Abandoned: dropping the wait drops the invocation.
Abandoned_Cancels(tr) == Idle

\* The coroutine awaiting the invocation is cancelled; the thread is not.
Abandoned(tr) == [tr EXCEPT !.awaited = FALSE]

\* Mutant of Answer: the handler has no except branch.
Answer_NoExcept(c, r) == [to |-> c.name, kind |-> "success"]

\* What the handler of bot.py awaiting call c answers on result r: the
\* except branch on an exception, else the message of the try branch.
Answer(c, r) ==
    IF r.type = "raised" THEN [to |-> c.name, kind |-> "failure"]
    ELSE IF \/ c.name \in {"delete_expense", "delete_all_expenses"} /\ r.v = 0
            \/ c.name = "get_all_expenses" /\ r.v = <<>>
         THEN [to |-> c.name, kind |-> "nothing"]
    ELSE [to |-> c.name, kind |-> "success"]

Active(t) == task[t].pc # "idle"

\* add_expense invocations that have not returned yet
AddsInFlight ==
    Cardinality({t \in Tasks : Active(t) /\ task[t].call.name = "add_expense"})

\* await asyncio.to_thread(_xxx_sync, ...)
Dispatch(t, c) ==
    /\ ~Active(t)
    /\ c.name = "add_expense" => seq + AddsInFlight < MaxId
    /\ task' = [task EXCEPT ![t] =
                  [pc |-> "connect", call |-> c, open |-> FALSE,
                   pend |-> NoChange, result |-> None, awaited |-> TRUE,
                   committed |-> FALSE]]
    /\ UNCHANGED <<cols, rows, seq, issued, op, ret, writer, main, reply, conns>>

\* _connect()
Connect(t) ==
    /\ task[t].pc = "connect"
    /\ task' = [task EXCEPT ![t].pc = "create", ![t].open = TRUE]
    /\ conns' = conns + 1
    /\ UNCHANGED <<cols, rows, seq, issued, op, ret, writer, main, reply>>

\* sqlite3.connect raises: there is no connection to close.
ConnectFails(t) ==
    /\ task[t].pc = "connect"
    /\ task' = [task EXCEPT ![t].pc = "return", ![t].result = OperationalError]
    /\ UNCHANGED <<cols, rows, seq, issued, op, ret, writer, main, reply, conns>>

\* CREATE TABLE IF NOT EXISTS expenses (...)
CreateTable(t) ==
    /\ task[t].pc = "create"
    /\ cols = {} => LockFree(t)
    /\ cols' = IF cols = {} THEN BaseColumns ELSE cols
    /\ task' = [task EXCEPT ![t].pc = "pragma"]
    /\ UNCHANGED <<rows, seq, issued, op, ret, writer, main, reply, conns>>

\* PRAGMA table_info(expenses); if "category" not in cols
TableInfo(t) ==
    /\ task[t].pc = "pragma"
    /\ task' = [task EXCEPT ![t].pc =
                  IF "category" \notin cols THEN "alter" ELSE "statement"]
    /\ UNCHANGED <<cols, rows, seq, issued, op, ret, writer, main, reply, conns>>

\* ALTER TABLE expenses ADD COLUMN category TEXT, the column still missing
AlterTable(t) ==
    /\ task[t].pc = "alter"
    /\ "category" \notin cols
    /\ LockFree(t)
    /\ cols' = cols \cup {"category"}
    /\ rows' = {AddColumn(r) : r \in rows}
    /\ task' = [task EXCEPT ![t].pc = "statement"]
    /\ UNCHANGED <<seq, issued, op, ret, writer, main, reply, conns>>

\* ALTER TABLE expenses ADD COLUMN category TEXT after another connection
\* has added the column: duplicate column name.
AlterTableDuplicate(t) ==
    /\ task[t].pc = "alter"
    /\ "category" \in cols
    /\ task' = [task EXCEPT ![t].pc = "close", ![t].result = DuplicateColumn]
    /\ UNCHANGED <<cols, rows, seq, issued, op, ret, writer, main, reply, conns>>

\* conn.execute(<the statement of the function>)
Execute(t) ==
    /\ task[t].pc = "statement"
    /\ LET c == task[t].call
       IN  IF IsWrite(c)
           THEN /\ LockFree(t)
                /\ writer' = t
                /\ task' = [task EXCEPT
                      ![t].pc = "commit",
                      ![t].pend = [changed |-> TRUE,
                                   rows |-> StatementRows(c, rows, seq),
                                   seq |-> StatementSeq(c, rows, seq)],
                      ![t].result = StatementResult(c, rows)]
           ELSE /\ writer' = writer
                /\ task' = [task EXCEPT
                      ![t].pc = IF c.name = "init_db" THEN "commit" ELSE "close",
                      ![t].result = StatementResult(c, rows)]
    /\ UNCHANGED <<cols, rows, seq, issued, op, ret, main, reply, conns>>

\* conn.__exit__ of `with ... conn:` without an exception: commit
Commit(t) ==
    /\ task[t].pc = "commit"
    /\ LET db == Committed([rows |-> rows, seq |-> seq], task[t].pend)
       IN  /\ rows' = db.rows
           /\ seq' = db.seq
           /\ issued' = issued \cup Ids(db.rows)
    /\ writer' = IF writer = t THEN 0 ELSE writer
    /\ task' = [task EXCEPT ![t].pc = "close", ![t].pend = NoChange,
                            ![t].committed = TRUE]
    /\ UNCHANGED <<cols, op, ret, main, reply, conns>>

\* A statement of _ensure_schema, the function's statement or the commit
\* raises (the database is locked, the disk fails): conn.__exit__ rolls the
\* transaction back and the exception goes up.
Raise(t) ==
    /\ task[t].pc \in {"create", "alter", "statement", "commit"}
    /\ writer' = IF writer = t THEN 0 ELSE writer
    /\ task' = [task EXCEPT ![t].pc = "close", ![t].pend = NoChange,
                            ![t].result = OperationalError]
    /\ UNCHANGED <<cols, rows, seq, issued, op, ret, main, reply, conns>>

\* closing(...).__exit__
Close(t) ==
    /\ task[t].pc = "close"
    /\ task' = [task EXCEPT ![t] = Closed(task[t])]
    /\ conns' = IF task'[t].open THEN conns ELSE conns - 1
    /\ UNCHANGED <<cols, rows, seq, issued, op, ret, writer, main, reply>>

\* The thread is done: the awaiting handler goes on with the result or the
\* exception and answers; a result nobody awaits is dropped.
Return(t) ==
    /\ task[t].pc = "return"
    /\ reply' = IF task[t].awaited /\ task[t].call.name # "init_db"
                THEN Answer(task[t].call, task[t].result) ELSE reply
    /\ task' = [task EXCEPT ![t] = Idle]
    /\ UNCHANGED <<cols, rows, seq, issued, op, ret, writer, main, conns>>

\* The awaiting coroutine is cancelled while the thread runs.
Abandon(t) ==
    /\ Active(t)
    /\ task[t].awaited
    /\ task' = [task EXCEPT ![t] = Abandoned(task[t])]
    /\ UNCHANGED <<cols, rows, seq, issued, op, ret, writer, main, reply, conns>>

\* The steps the thread of invocation t takes by itself.
Worker(t) ==
    \/ Connect(t)
    \/ ConnectFails(t)
    \/ CreateTable(t)
    \/ TableInfo(t)
    \/ AlterTable(t)
    \/ AlterTableDuplicate(t)
    \/ Execute(t)
    \/ Commit(t)
    \/ Raise(t)
    \/ Close(t)
    \/ Return(t)

NextConc ==
    \/ \E t \in Tasks : \E c \in ConcCalls : Dispatch(t, c)
    \/ \E t \in Tasks : Worker(t)

SpecConc == Init /\ [][NextConc]_vars

\* The invocations of the specification with cancelled waits.
FairCalls == {c \in ConcCalls : c.name \in {"add_expense", "delete_all_expenses"}
                                 /\ c.user_id = 1}

NextFair ==
    \/ \E t \in Tasks : \E c \in FairCalls : Dispatch(t, c)
    \/ \E t \in Tasks : Worker(t)
    \/ \E t \in Tasks : Abandon(t)

\* Threads are scheduled and a blocked statement gives up at its timeout:
\* an invocation that can take a step takes one.
SpecFair == Init /\ [][NextFair]_vars /\ \A t \in Tasks : WF_vars(Worker(t))

----------------------------------------------------------------------------
(* utils.parse_expense_message                                             *)
(*                                                                         *)
(* A message text is a sequence of characters.  Sup2 stands for the        *)
(* character U+00B2 (superscript two): str.isdigit() is true of it and     *)
(* int() does not accept it.                                               *)

\* Length of the texts the parser is tried on.
MaxText == 4

Sup2 == "sup2"
Alphabet == {"a", " ", "0", "1", "-", Sup2}
Whitespace == {" "}
Decimal == {Digits[i] : i \in 1..Len(Digits)}

\* Every text of at most MaxText characters
Texts == UNION {[1..n -> Alphabet] : n \in 0..MaxText}

ValueError == Raised("ValueError")

RECURSIVE LStrip(_)
LStrip(s) ==
    IF s # <<>> /\ Head(s) \in Whitespace THEN LStrip(Tail(s)) ELSE s

RECURSIVE RStrip(_)
RStrip(s) ==
    IF s # <<>> /\ s[Len(s)] \in Whitespace
    THEN RStrip(SubSeq(s, 1, Len(s) - 1)) ELSE s

\* str.strip()
Strip(s) == RStrip(LStrip(s))

RECURSIVE Split(_)
\* str.split(): the runs of characters between runs of whitespace
Split(s) ==
    LET t == LStrip(s)
    IN  IF t = <<>> THEN <<>>
        ELSE LET ends == {i \in 1..Len(t) : t[i] \in Whitespace}
                 n == IF ends = {} THEN Len(t) + 1
                      ELSE CHOOSE i \in ends : \A j \in ends : i <= j
             IN  <<SubSeq(t, 1, n - 1)>> \o Split(SubSeq(t, n, Len(t)))

RECURSIVE Join(_)
\* " ".join(parts)
Join(parts) ==
    IF parts = <<>> THEN <<>>
    ELSE IF Len(parts) = 1 THEN parts[1]
    ELSE parts[1] \o <<" ">> \o Join(Tail(parts))

\* str.isdigit(): not empty and every character a digit character
IsDigit(s) == s # <<>> /\ \A i \in 1..Len(s) : s[i] \in Decimal \cup {Sup2}

DigitValue(c) == CHOOSE d \in 0..9 : Digits[d + 1] = c

RECURSIVE Value(_)
Value(s) ==
    IF s = <<>> THEN 0
    ELSE 10 * Value(SubSeq(s, 1, Len(s) - 1)) + DigitValue(s[Len(s)])

\* int(s): an optional sign and decimal digits, else ValueError
IntOfStr(s) ==
    LET signed == s # <<>> /\ Head(s) = "-"
        digits == IF signed THEN Tail(s) ELSE s
    IN  IF digits = <<>> \/ \E i \in 1..Len(digits) : digits[i] \notin Decimal
        THEN ValueError
        ELSE PyInt(IF signed THEN 0 - Value(digits) ELSE Value(digits))

\* Mutant of parse_expense_message: the last word goes to int() unchecked.
parse_expense_message_NoChecks(text) ==
    LET parts == Split(Strip(text))
    IN  IF Len(parts) < 2 THEN ValueError
        ELSE LET amount == IntOfStr(parts[Len(parts)])
             IN  IF amount.type = "raised" THEN amount
                 ELSE PyTuple(<<Join(SubSeq(parts, 1, Len(parts) - 1)), amount.v>>)

\* parse_expense_message(text): (item, amount) or ValueError
parse_expense_message(text) ==
    LET s == Strip(text)
    IN  IF s = <<>> THEN ValueError
        ELSE
        LET parts == Split(s)
        IN  IF Len(parts) < 2 THEN ValueError
            ELSE
            LET amount_str == parts[Len(parts)]
                item == Strip(Join(SubSeq(parts, 1, Len(parts) - 1)))
            IN  IF ~IsDigit(amount_str) THEN ValueError
                ELSE
                LET amount == IntOfStr(amount_str)
                IN  IF amount.type = "raised" THEN amount
                    ELSE IF amount.v < 0 THEN ValueError
                    ELSE IF item = <<>> THEN ValueError
                    ELSE PyTuple(<<item, amount.v>>)

\* What the parser gives on every text
Parsed == [text \in Texts |-> parse_expense_message(text)]

----------------------------------------------------------------------------
(* bot.py: main() and the handlers, one update at a time                   *)

\* Texts users send to the bot
Messages ==
    { <<>>,
      <<" ", " ">>,
      <<"a">>,
      <<"-", "1">>,
      <<"a", " ", "0">>,
      <<"a", " ", "-", "1">>,
      <<"a", " ", "1", "a">>,
      <<"a", " ", Sup2>>,
      <<" ", "a", " ", " ", "1", " ">>,
      <<"a", " ", "a", " ", "1", "0">> }

\* datetime.now().strftime("%Y-%m-%d") while the bot runs
Today == D0301

\* Where a call of a store function fails, if it does
Failures == {"none", "schema", "statement"}

\* await <store function>(...) from a handler: _ensure_schema, then the
\* statement; an exception of either ends the call and changes nothing.
Awaited(c, fail, t, s) ==
    CASE fail = "schema" ->
            [schema |-> "raised", statement |-> FALSE,
             result |-> OperationalError, rows |-> t, seq |-> s]
      [] fail = "statement" ->
            [schema |-> "ok", statement |-> TRUE,
             result |-> OperationalError, rows |-> t, seq |-> s]
      [] OTHER ->
            [schema |-> "ok", statement |-> TRUE,
             result |-> StatementResult(c, t),
             rows |-> StatementRows(c, t, s),
             seq |-> StatementSeq(c, t, s)]

\* The last call of a store function, as the history records it
Called(c, a) == [name |-> c.name, user_id |-> c.user_id,
                 schema |-> a.schema, statement |-> a.statement]

\* Mutant of AfterInitDb: a failure of init_db is logged as non-fatal.
AfterInitDb_NonFatal(ok) == "polling"

\* main(): `await init_db()` stands before dp.start_polling with nothing
\* around it, so its exception ends main().
AfterInitDb(ok) == IF ok THEN "polling" ELSE "crashed"

\* main() up to dp.start_polling
BotMain(ok) ==
    /\ main = "boot"
    /\ cols' = IF ok THEN EnsureSchema(cols)
               ELSE IF cols = {} THEN BaseColumns ELSE cols
    /\ rows' = IF ok THEN SchemaRows(cols, rows) ELSE rows
    /\ main' = AfterInitDb(ok)
    /\ op' = [name |-> "init_db", user_id |-> 0,
              schema |-> IF ok THEN "ok" ELSE "raised", statement |-> FALSE]
    /\ ret' = IF ok THEN None ELSE OperationalError
    /\ UNCHANGED <<seq, issued, task, writer, reply, conns>>

\* The state after a handler's call of a store function
StoreCalled(c, a) ==
    /\ cols' = IF a.schema = "ok" THEN EnsureSchema(cols) ELSE cols
    /\ rows' = a.rows
    /\ seq' = a.seq
    /\ issued' = issued \cup Ids(a.rows)
    /\ op' = Called(c, a)
    /\ ret' = a.result
    /\ UNCHANGED <<task, writer, main, conns>>

\* handle_expense_message
HandleExpenseMessage(u, text, fail) ==
    /\ main = "polling"
    /\ LET parsed == parse_expense_message(text)
       IN  IF parsed.type = "raised"
           THEN /\ reply' = [to |-> "handle_expense_message", kind |-> "format"]
                /\ op' = [name |-> "parse_expense_message", user_id |-> u,
                          schema |-> "none", statement |-> FALSE]
                /\ ret' = parsed
                /\ UNCHANGED <<cols, rows, seq, issued, task, writer, main, conns>>
           ELSE LET c == [name |-> "add_expense", user_id |-> u,
                          item |-> parsed.v[1], amount |-> parsed.v[2],
                          date_str |-> Today, category |-> NULL]
                    a == Awaited(c, fail, SchemaRows(cols, rows), seq)
                IN  /\ seq < MaxId
                    /\ StoreCalled(c, a)
                    /\ reply' = Answer(c, a.result)

\* /hisobot
CmdHisobot(u, fail) ==
    /\ main = "polling"
    /\ LET c == [name |-> "get_all_expenses", user_id |-> u]
           a == Awaited(c, fail, SchemaRows(cols, rows), seq)
       IN  /\ StoreCalled(c, a)
           /\ reply' = Answer(c, a.result)

\* /undo
CmdUndo(u, fail, fail2) ==
    /\ main = "polling"
    /\ LET c == [name |-> "get_last_expense", user_id |-> u]
           a == Awaited(c, fail, SchemaRows(cols, rows), seq)
       IN  IF a.result.type = "raised"
           THEN /\ StoreCalled(c, a)
                /\ reply' = [to |-> "delete_expense", kind |-> "failure"]
           ELSE IF a.result = None
           THEN /\ StoreCalled(c, a)
                /\ reply' = [to |-> "delete_expense", kind |-> "nothing"]
           ELSE LET c2 == [name |-> "delete_expense", user_id |-> u,
                           expense_id |-> a.result.v[1]]
                    a2 == Awaited(c2, fail2, a.rows, a.seq)
                IN  /\ StoreCalled(c2, a2)
                    /\ reply' = Answer(c2, a2.result)

\* /clear
CmdClear(u, fail) ==
    /\ main = "polling"
    /\ LET c == [name |-> "delete_all_expenses", user_id |-> u]
           a == Awaited(c, fail, SchemaRows(cols, rows), seq)
       IN  /\ StoreCalled(c, a)
           /\ reply' = Answer(c, a.result)

NextBot ==
    \/ \E ok \in BOOLEAN : BotMain(ok)
    \/ \E u \in KnownUsers : \E text \in Messages : \E fail \in Failures :
          HandleExpenseMessage(u, text, fail)
    \/ \E u \in KnownUsers : \E fail \in Failures : CmdHisobot(u, fail)
    \/ \E u \in KnownUsers : \E fail \in Failures : \E fail2 \in Failures :
          CmdUndo(u, fail, fail2)
    \/ \E u \in KnownUsers : \E fail \in Failures : CmdClear(u, fail)

SpecBot == Init /\ [][NextBot]_vars

----------------------------------------------------------------------------
(* bot.py: cmd_undo between its two awaits                                 *)
(*                                                                         *)
(* The dispatcher handles every update in a task of its own, so while one  *)
(* handler waits for a store call another handler runs.  cmd_undo makes    *)
(* two store calls: get_last_expense, then delete_expense with the id the  *)
(* first one returned.  Each call is one step here.                        *)

\* Texts sent while an undo is under way
UndoMessages == { <<"a">>, <<"a", " ", "0">> }

\* cmd_undo up to the return of get_last_expense
UndoLookup(t, u, fail) ==
    /\ main = "polling"
    /\ ~Active(t)
    /\ LET c == [name |-> "get_last_expense", user_id |-> u]
           a == Awaited(c, fail, SchemaRows(cols, rows), seq)
       IN  /\ cols' = IF a.schema = "ok" THEN EnsureSchema(cols) ELSE cols
           /\ rows' = a.rows
           /\ op' = Called(c, a)
           /\ ret' = a.result
           /\ IF a.result.type = "raised"
              THEN /\ reply' = [to |-> "delete_expense", kind |-> "failure"]
                   /\ task' = task
              ELSE IF a.result = None
              THEN /\ reply' = [to |-> "delete_expense", kind |-> "nothing"]
                   /\ task' = task
              ELSE /\ reply' = reply
                   /\ task' = [task EXCEPT ![t] =
                                 [pc |-> "undo_delete", user_id |-> u,
                                  last |-> a.result.v]]
    /\ UNCHANGED <<seq, issued, writer, main, conns>>

\* cmd_undo from `exp_id, item, amount, _dt, _cat = last` to its answer
UndoDelete(t, fail) ==
    /\ main = "polling"
    /\ Active(t)
    /\ task[t].pc = "undo_delete"
    /\ LET c == [name |-> "delete_expense", user_id |-> task[t].user_id,
                 expense_id |-> task[t].last[1]]
           a == Awaited(c, fail, SchemaRows(cols, rows), seq)
       IN  /\ cols' = IF a.schema = "ok" THEN EnsureSchema(cols) ELSE cols
           /\ rows' = a.rows
           /\ op' = Called(c, a)
           /\ ret' = a.result
           /\ reply' = Answer(c, a.result)
    /\ task' = [task EXCEPT ![t] = Idle]
    /\ UNCHANGED <<seq, issued, writer, main, conns>>

NextUndo ==
    \/ \E ok \in BOOLEAN : BotMain(ok)
    \/ \E u \in KnownUsers : \E text \in UndoMessages : \E fail \in Failures :
          HandleExpenseMessage(u, text, fail)
    \/ \E t \in Tasks : \E u \in KnownUsers : \E fail \in Failures :
          UndoLookup(t, u, fail)
    \/ \E t \in Tasks : \E fail \in Failures : UndoDelete(t, fail)

SpecUndo == Init /\ [][NextUndo]_vars

----------------------------------------------------------------------------
(* Vocabulary of the properties, defined apart from the operators above *)

\* s starts with the characters of p
StartsWith(s, p) == Len(s) >= Len(p) /\ SubSeq(s, 1, Len(p)) = p

\* The zero-padded 'YYYY-MM-' prefixes of the months queried, written out.
PaddedPrefix(year, month) ==
    CASE year = 2024 /\ month = 3 -> <<"2", "0", "2", "4", "-", "0", "3", "-">>
      [] year = 2024 /\ month = 4 -> <<"2", "0", "2", "4", "-", "0", "4", "-">>

\* The records of user u dated in the month
InMonth(t, u, year, month) ==
    {r \in t : r.user_id = u /\ StartsWith(r.date, PaddedPrefix(year, month))}

RECURSIVE AmountSum(_)
AmountSum(t) ==
    IF t = {} THEN 0
    ELSE LET r == CHOOSE r \in t : TRUE IN r.amount + AmountSum(t \ {r})

\* The call that led to the state was add_expense with a non-empty item
\* and a non-negative amount.
ValidAdd(o) == o.name = "add_expense" /\ o.item # "" /\ o.amount >= 0

----------------------------------------------------------------------------
(* Properties *)

\* C1: after add_expense(u, item, amount, d) with a valid (item, amount >= 0),
\* get_all_expenses(u) is its previous result with exactly one element
\* (item, amount, d) appended at the end.
C1_InsertAppendsToListAll ==
    [][ ValidAdd(op') =>
          ListAll(rows', op'.user_id) =
            Append(ListAll(rows, op'.user_id),
                   <<op'.item, op'.amount, op'.date_str>>) ]_vars

\* C1 witness: a valid insert has landed after an earlier record of the same
\* user while another user owns a record too.
C1_Witness ==
    /\ ValidAdd(op)
    /\ Len(ListAll(rows, op.user_id)) >= 2
    /\ \E r \in rows : r.user_id # op.user_id

\* C2: add_expense with a negative amount or an empty item fails with a
\* ValidationError and adds no row.
ValidationError == [type |-> "raised", v |-> "ValidationError"]

C2_InvalidInsertRejected ==
    [][ (op'.name = "add_expense" /\ (op'.item = "" \/ op'.amount < 0))
          => (ret' = ValidationError /\ rows' = rows) ]_vars

\* C3: get_month_total(u, y, m) is the sum of amount over exactly the records
\* of u whose date starts with the zero-padded 'YYYY-MM-', and a step that
\* only inserts or deletes records of other months or of other users leaves
\* it unchanged.
C3_MonthTotalIsPrefixSum ==
    /\ [](\A u \in KnownUsers : \A y \in Years : \A m \in Months :
            MonthTotal(rows, u, y, m) = AmountSum(InMonth(rows, u, y, m)))
    /\ [][ rows' # rows =>
             \A u \in KnownUsers : \A y \in Years : \A m \in Months :
               InMonth(rows', u, y, m) = InMonth(rows, u, y, m)
                 => MonthTotal(rows', u, y, m) = MonthTotal(rows, u, y, m) ]_vars

\* C3 witness: a record dated in April has just been added to a ledger that
\* holds records of March and a record whose month is not zero-padded.
C3_Witness ==
    /\ op.name = "add_expense"
    /\ op.date_str = D0401
    /\ MonthTotal(rows, op.user_id, 2024, 3) > 0
    /\ \E r \in rows : r.user_id = op.user_id /\ r.date = D3x01

\* C4: get_month_total never returns a negative number or null, and returns
\* 0 when no record of the user matches the month.
C4_MonthTotalNeverNegative ==
    op.name = "get_month_total" =>
        /\ ret.type = "int"
        /\ ret.v >= 0
        /\ (InMonth(rows, op.user_id, op.year, op.month) = {} => ret.v = 0)

\* C5: delete_expense(u, id) removes at most one record, returns 1 exactly
\* when a record with that id owned by u existed and 0 otherwise; called for
\* a record owned by another user it returns 0 and changes nothing.
C5_DeleteByIdOwnerScoped ==
    [][ op'.name = "delete_expense" =>
          LET owned == {r \in rows : r.id = op'.expense_id
                                     /\ r.user_id = op'.user_id}
              foreign == {r \in rows : r.id = op'.expense_id
                                       /\ r.user_id # op'.user_id}
          IN  /\ rows' = rows \ owned
              /\ Cardinality(rows \ rows') <= 1
              /\ ret' = PyInt(IF owned # {} THEN 1 ELSE 0)
              /\ (foreign # {} => ret' = PyInt(0) /\ rows' = rows) ]_vars

\* C5 witness: a delete aimed at another user's record returned 0 and the
\* record is still there.
C5_Witness ==
    /\ op.name = "delete_expense"
    /\ ret = PyInt(0)
    /\ \E r \in rows : r.id = op.expense_id /\ r.user_id # op.user_id

\* C6: delete_all_expenses(u) for a user owning N records returns N, leaves
\* get_all_expenses(u) empty and every other user's records unchanged; a
\* second delete_all_expenses(u) right after it returns 0.
C6_DeleteAllReturnsCount ==
    [][ op'.name = "delete_all_expenses" =>
          /\ ret' = PyInt(Cardinality({r \in rows : r.user_id = op'.user_id}))
          /\ ListAll(rows', op'.user_id) = <<>>
          /\ \A v \in KnownUsers \ {op'.user_id} :
                {r \in rows' : r.user_id = v} = {r \in rows : r.user_id = v}
          /\ (op = op' => ret' = PyInt(0)) ]_vars

\* C6 witness: a delete_all removed two records and another user's record
\* remains.
C6_Witness ==
    /\ op.name = "delete_all_expenses"
    /\ ret = PyInt(2)
    /\ \E r \in rows : r.user_id # op.user_id

\* C7: get_last_expense(u) is the record of u with the greatest id, or None
\* when u has none; after an insert for u it is the inserted record, after
\* deleting it the record before it, and inserts of other users never change
\* it.
C7_LastIsGreatestId ==
    /\ [](\A u \in KnownUsers :
            LET mine == {r \in rows : r.user_id = u}
                last == LastExpense(rows, u)
            IN  /\ mine = {} => last = None
                /\ mine # {} =>
                     /\ last.type = "tuple"
                     /\ \E r \in mine :
                          /\ last.v = <<r.id, r.item, r.amount, r.date, r.category>>
                          /\ \A q \in mine : q.id <= r.id)
    /\ [][ /\ op'.name = "add_expense" =>
                /\ LastExpense(rows', op'.user_id).v[1] \notin Ids(rows)
                /\ SubSeq(LastExpense(rows', op'.user_id).v, 2, 5) =
                     <<op'.item, op'.amount, op'.date_str, op'.category>>
                /\ \A v \in KnownUsers \ {op'.user_id} :
                     LastExpense(rows', v) = LastExpense(rows, v)
           /\ (op'.name = "delete_expense" /\ ret' = PyInt(1)
                 /\ LastExpense(rows, op'.user_id).v[1] = op'.expense_id) =>
                LET left == {r \in rows : r.user_id = op'.user_id
                                          /\ r.id < op'.expense_id}
                IN  IF left = {} THEN LastExpense(rows', op'.user_id) = None
                    ELSE /\ LastExpense(rows', op'.user_id).v[1] \in Ids(left)
                         /\ \A q \in left :
                              q.id <= LastExpense(rows', op'.user_id).v[1]
         ]_vars

\* C7 witness: the latest record B of a user has been deleted, the last
\* record is again the earlier A, and another user inserted after A.
C7_Witness ==
    /\ op.name = "delete_expense"
    /\ ret = PyInt(1)
    /\ LastExpense(rows, op.user_id) # None
    /\ LastExpense(rows, op.user_id).v[1] < op.expense_id
    /\ \E r \in rows : /\ r.user_id # op.user_id
                       /\ r.id > LastExpense(rows, op.user_id).v[1]

\* The claim of C8 and of its amended form, for the label the records
\* without a category are counted under.
BlankCountedUnder(label) ==
    op.name = "get_month_category_totals" =>
        LET m == InMonth(rows, op.user_id, op.year, op.month)
            blank == {r \in m : r.category = NULL \/ r.category = <<"">>}
            under == blank \cup {r \in m : r.category = <<label>>}
        IN  /\ blank # {} =>
                 /\ \E i \in 1..Len(ret.v) : ret.v[i] = <<label, AmountSum(under)>>
                 /\ \A i \in 1..Len(ret.v) : \A r \in blank :
                        r.category # NULL => ret.v[i][1] # r.category[1]
            /\ (m # {} /\ blank = m) => ret.v = << <<label, AmountSum(m)>> >>

C9_OrderDeterministic ==
    [][ op'.name = "get_month_category_totals" =>
          /\ \A i \in 1..Len(ret'.v) : \A j \in 1..Len(ret'.v) :
                i < j => ret'.v[i][2] >= ret'.v[j][2]
          /\ (op = op' /\ rows' = rows) => ret' = ret ]_vars

\* C10: record ids are unique, and the id given to a new record is greater
\* than every id assigned before, whatever has been deleted since.
C10_IdsNeverReused ==
    /\ [](\A r \in rows : \A q \in rows : r.id = q.id => r = q)
    /\ [][ op'.name = "add_expense" =>
             /\ Cardinality(rows' \ rows) = 1
             /\ rows \subseteq rows'
             /\ \A r \in rows' \ rows : \A i \in issued : r.id > i ]_vars

\* C10 witness: a record has been inserted after the record with the
\* greatest id so far was deleted.
C10_Witness ==
    /\ op.name = "add_expense"
    /\ seq >= 2
    /\ seq \in Ids(rows)
    /\ (seq - 1) \notin Ids(rows)


\* The five columns every row has had since the table was created.
Core(r) == <<r.id, r.user_id, r.item, r.amount, r.date>>

\* C13: _ensure_schema gives the same schema however often it runs (the
\* category column is added once and not again), and it changes no existing
\* row: a row from before the column keeps id, user_id, item, amount and
\* date and reads a null category, so every total is unchanged.
C13_EnsureSchemaIdempotent ==
    [][ /\ cols' = BaseColumns \cup {"category"}
        /\ EnsureSchema(cols') = cols'
        /\ \A r \in rows : \A q \in rows' :
              q.id = r.id =>
                /\ Core(q) = Core(r)
                /\ q.category = (IF "category" \in cols THEN r.category ELSE NULL)
        /\ op'.name = "init_db" =>
              /\ {Core(q) : q \in rows'} = {Core(r) : r \in rows}
              /\ \A u \in KnownUsers : \A y \in Years : \A m \in Months :
                    MonthTotal(rows', u, y, m) = AmountSum(InMonth(rows, u, y, m))
      ]_vars

\* C13 witness: init_db has run on a table of two rows written before the
\* category column existed; both are there and read a null category.
C13_Witness ==
    /\ op.name = "init_db"
    /\ "category" \in cols
    /\ {Core(r) : r \in rows} = {<<1, 1, "non", 1, D0301>>, <<2, 2, "ijara", 2, D0401>>}
    /\ \A r \in rows : r.category = NULL

\* C18: a query for user u gives the same result on the ledger and on the
\* ledger cut down to the records of u, so any two ledgers that agree on the
\* records of u give the same result; and an insert or delete issued for u
\* leaves the records of every other user unchanged.
C18_OwnerScoped ==
    /\ [](\A u \in KnownUsers :
            LET own == {r \in rows : r.user_id = u}
            IN  /\ ListAll(rows, u) = ListAll(own, u)
                /\ LastExpense(rows, u) = LastExpense(own, u)
                /\ \A d \in QueryDates : ListByDate(rows, u, d) = ListByDate(own, u, d)
                /\ \A y \in Years : \A m \in Months :
                      /\ MonthTotal(rows, u, y, m) = MonthTotal(own, u, y, m)
                      /\ MonthCategoryTotals(rows, u, y, m) =
                            MonthCategoryTotals(own, u, y, m))
    /\ [][ op'.name \in {"add_expense", "delete_expense", "delete_all_expenses"} =>
             \A v \in KnownUsers \ {op'.user_id} :
                {r \in rows' : r.user_id = v} = {r \in rows : r.user_id = v} ]_vars

\* C18 witness: two users hold records of the same date and one of them has
\* just deleted a record.
C18_Witness ==
    /\ op.name = "delete_expense"
    /\ ret = PyInt(1)
    /\ \E r \in rows : \E q \in rows :
          r.user_id = 1 /\ q.user_id = 2 /\ r.date = D0301 /\ q.date = D0301


\* C19: every invocation dispatched to a worker thread ends, with a result
\* or an exception, also when the front end has stopped waiting for it; it
\* ends only by returning, its connection closed and its transaction over.
C19_InvocationsRunToCompletion ==
    /\ \A t \in Tasks : (task[t].pc # "idle") ~> (task[t].pc = "idle")
    /\ [][ \A t \in Tasks :
             (task[t].pc # "idle" /\ task'[t].pc = "idle") =>
                /\ task[t].pc = "return"
                /\ ~task[t].open
                /\ ~task[t].pend.changed
                /\ writer # t
                /\ (IsWrite(task[t].call) /\ task[t].result.type # "raised")
                      => task[t].committed ]_vars

\* C19 witness: an invocation nobody awaits any more has committed its
\* write and is about to return.
C19_Witness ==
    \E t \in Tasks :
        /\ task[t].pc = "return"
        /\ ~task[t].awaited
        /\ task[t].committed
        /\ task[t].call.name = "add_expense"
        /\ \E r \in rows : r.id = seq

\* C11: concurrent inserts and deletes take effect one whole statement at a
\* time, in the order of their commits: the ledger changes only when a write
\* commits, and then to what its statement gives on the ledger as it is at
\* that moment; a committed insert adds exactly one row holding the values
\* of the call; a write that ends without an exception has committed; and a
\* reader gets the list of a committed ledger.
C11_ConcurrentWritesSerialize ==
    [][ /\ rows' # rows =>
              \E t \in Tasks :
                  /\ task[t].pc = "commit" /\ task'[t].committed
                  /\ IsWrite(task[t].call)
                  /\ rows' = StatementRows(task[t].call, rows, seq)
        /\ \A t \in Tasks :
              LET c == task[t].call
              IN  /\ (task[t].pc = "commit" /\ task'[t].committed
                        /\ c.name = "add_expense") =>
                         \E r \in rows' :
                             /\ r.id \notin Ids(rows)
                             /\ rows' = rows \cup {r}
                             /\ r.user_id = c.user_id /\ r.item = c.item
                             /\ r.amount = c.amount /\ r.date = c.date_str
                             /\ r.category = c.category
                  /\ (task[t].pc = "close" /\ task'[t].pc = "return" /\ IsWrite(c)
                        /\ task[t].result.type # "raised") => task[t].committed
                  /\ (task[t].pc = "statement" /\ c.name = "get_all_expenses"
                        /\ task'[t].result.type = "list") =>
                         /\ Len(task'[t].result.v) =
                               Cardinality({r \in rows : r.user_id = c.user_id})
                         /\ \A i \in 1..Len(task'[t].result.v) :
                               \E r \in rows :
                                   /\ r.user_id = c.user_id
                                   /\ task'[t].result.v[i] =
                                         <<r.item, r.amount, r.date>> ]_vars

\* C11 witness: two inserts that ran at the same time have both committed
\* and neither has returned yet; the ledger holds both rows.
C11_Witness ==
    /\ \A t \in Tasks :
          /\ task[t].pc \in {"close", "return"}
          /\ task[t].call.name = "add_expense"
          /\ task[t].committed
    /\ Cardinality(rows) = 2

\* C12: when invocations run _ensure_schema at the same time on a database
\* without the category column, none of them fails on the column: no
\* invocation ends with "duplicate column name: category".
C12_EnsureSchemaConcurrentSafe ==
    \A t \in Tasks : Active(t) => task[t].result # DuplicateColumn

\* C14: a write has committed when its call returns: at the commit of an
\* insert the ledger holds the new record, at the commit of a delete the
\* ledger holds none of the records it names, and from the end of a write
\* that raised nothing on, the write is committed, so a read started after
\* the return reads a ledger with the effect in it.
C14_WriteCommittedBeforeReturn ==
    /\ [](\A t \in Tasks :
            (Active(t) /\ task[t].pc \in {"close", "return"}
               /\ IsWrite(task[t].call) /\ task[t].result.type # "raised") =>
                  task[t].committed /\ ~task[t].pend.changed)
    /\ [][ \A t \in Tasks :
             LET c == task[t].call
             IN  (task[t].pc = "commit" /\ task'[t].pc = "close"
                    /\ task'[t].result.type # "raised") =>
                   /\ c.name = "add_expense" =>
                         \E r \in rows' \ rows :
                             /\ r.user_id = c.user_id /\ r.item = c.item
                             /\ r.amount = c.amount /\ r.date = c.date_str
                             /\ <<r.item, r.amount, r.date>> =
                                   ListAll(rows', c.user_id)
                                      [Len(ListAll(rows', c.user_id))]
                   /\ c.name = "delete_expense" =>
                         ~\E r \in rows' :
                             r.id = c.expense_id /\ r.user_id = c.user_id
                   /\ c.name = "delete_all_expenses" =>
                         ListAll(rows', c.user_id) = <<>> ]_vars

\* C14 witness: a delete has returned its count to the handler's thread of
\* control while another invocation is about to read; the deleted record is
\* not in the ledger.
C14_Witness ==
    \E t \in Tasks : \E q \in Tasks :
        /\ task[t].pc = "return" /\ task[t].call.name = "delete_expense"
        /\ task[t].result = PyInt(1) /\ task[t].committed
        /\ task[q].pc = "statement" /\ task[q].call.name = "get_all_expenses"
        /\ ~\E r \in rows : r.id = 1

\* C15: a write that fails is not applied and not reported as done: the
\* step on which an invocation gets its exception changes neither the
\* ledger nor the row counter and ends its transaction and its hold of the
\* write lock; an invocation that raised has not committed; the ledger
\* changes only with an invocation that ends without an exception; and the
\* handler awaiting a write that raised answers with its failure message.
C15_FailedWriteSurfaces ==
    /\ [](\A t \in Tasks :
            (Active(t) /\ task[t].result.type = "raised") =>
                ~task[t].committed /\ ~task[t].pend.changed /\ writer # t)
    /\ [][ /\ \A t \in Tasks :
                (Active(t) /\ task[t].result.type # "raised"
                   /\ task'[t].pc # "idle"
                   /\ task'[t].result.type = "raised") =>
                     rows' = rows /\ seq' = seq /\ cols' = cols
           /\ rows' # rows =>
                \E t \in Tasks : /\ task[t].pc = "commit"
                                  /\ task'[t].committed
                                  /\ task'[t].result.type # "raised"
           /\ \A t \in Tasks :
                (task[t].pc = "return" /\ task'[t].pc = "idle"
                   /\ task[t].awaited /\ IsWrite(task[t].call)) =>
                     /\ reply'.to = task[t].call.name
                     /\ task[t].result.type = "raised" => reply'.kind = "failure"
                     /\ reply'.kind # "failure" => task[t].committed ]_vars

\* C15 witness: of two inserts running together one has found the database
\* locked; its handler has answered with the failure message and the ledger
\* holds the other insert's row only.
C15_Witness ==
    /\ reply = [to |-> "add_expense", kind |-> "failure"]
    /\ Cardinality(rows) = 1
    /\ \E t \in Tasks : task[t].pc = "return" /\ task[t].call.name = "add_expense"
                          /\ task[t].committed
    /\ \E t \in Tasks : ~Active(t)

\* C16: every invocation opens a connection of its own and closes it when
\* it ends, with or without an exception: there are never more connections
\* open than invocations in flight, none is open when no invocation is in
\* flight, an invocation starts without a connection, opens one when it
\* connects, and has closed it before it returns.
C16_ConnectionPerOperation ==
    /\ [](/\ conns <= Cardinality({t \in Tasks : Active(t)})
          /\ (\A t \in Tasks : ~Active(t)) => conns = 0
          /\ \A t \in Tasks :
                (Active(t) /\ task[t].pc = "return") => ~task[t].open)
    /\ [][ \A t \in Tasks :
             /\ (~Active(t) /\ task'[t].pc # "idle") =>
                   ~task'[t].open /\ conns' = conns
             /\ (task[t].pc = "connect" /\ task'[t].pc = "create") =>
                   conns' = conns + 1
             /\ (task[t].pc = "close" /\ task'[t].pc # "close") =>
                   task'[t].pc = "return" /\ conns' = conns - 1 ]_vars

\* C16 witness: an invocation whose schema step raised has closed its
\* connection and is about to return, while the connection of the other
\* invocation is still open.
C16_Witness ==
    \E t \in Tasks :
        /\ task[t].pc = "return"
        /\ task[t].result = DuplicateColumn
        /\ ~task[t].open
        /\ conns = 1

\* C17: no statement of the store runs before _ensure_schema has succeeded:
\* the bot polls only after init_db has succeeded, so while it polls the
\* table has all its columns; no handler runs before the bot polls; a call
\* whose statement ran had its schema step succeed; and a call whose schema
\* step raised ran no statement, changed no row, raised to its caller, and
\* its handler answered with the failure message.
C17_SchemaBeforeStatements ==
    /\ [](main = "polling" => (cols # {} /\ EnsureSchema(cols) = cols))
    /\ [](op.name # "start" => (op.statement => op.schema = "ok"))
    /\ [][ /\ (main # "polling" /\ main' = "polling") =>
                 main = "boot" /\ op'.name = "init_db" /\ op'.schema = "ok"
           /\ op'.name # "init_db" => main = "polling" /\ main' = "polling"
           /\ op'.schema = "raised" =>
                 /\ ~op'.statement
                 /\ rows' = rows /\ seq' = seq
                 /\ ret'.type = "raised"
                 /\ op'.name # "init_db" => reply'.kind = "failure" ]_vars

\* C17 witness: while the bot polls, the schema step of an add_expense has
\* raised; the handler has answered with the failure message and the
\* ledger holds what it held.
C17_Witness ==
    /\ main = "polling"
    /\ op.name = "add_expense" /\ op.schema = "raised"
    /\ reply = [to |-> "add_expense", kind |-> "failure"]
    /\ rows # {}

\* C20: parse_expense_message gives, on every text, either ValueError or an
\* item that is not empty and has no whitespace at its ends together with
\* an amount >= 0; the handler of a text that does not parse calls no store
\* function and answers with the format message; so every record stored
\* through the handler has amount >= 0 and a non-empty trimmed item.
C20_StoredRecordsValid ==
    /\ \A text \in Texts :
          \/ Parsed[text] = ValueError
          \/ /\ Parsed[text].type = "tuple"
             /\ Parsed[text].v[1] # <<>>
             /\ Strip(Parsed[text].v[1]) = Parsed[text].v[1]
             /\ Parsed[text].v[2] >= 0
    /\ [](\A r \in rows :
             r.amount >= 0 /\ r.item # <<>> /\ Strip(r.item) = r.item)
    /\ [][ op'.name = "parse_expense_message" =>
             /\ ret' = ValueError
             /\ rows' = rows /\ seq' = seq /\ cols' = cols
             /\ reply' = [to |-> "handle_expense_message", kind |-> "format"] ]_vars

\* C20 witness: a text with spaces around and between its words has been
\* stored as ("a a", 10), and the text after it did not parse.
C20_Witness ==
    /\ op.name = "parse_expense_message"
    /\ \E r \in rows : r.item = <<"a", " ", "a">> /\ r.amount = 10

\* C21: when cmd_undo answers that a record was deleted, the record it
\* removed had the greatest id among the user's records at the moment of
\* the delete; and a delete step of cmd_undo that raises nothing on a
\* ledger holding records of the user removes one.
C21_UndoRemovesLatest ==
    [][ \A t \in Tasks :
          (Active(t) /\ task[t].pc = "undo_delete" /\ task'[t].pc = "idle"
             /\ ret'.type # "raised") =>
             LET own == {r \in rows : r.user_id = task[t].user_id}
             IN  /\ reply'.kind = "success" =>
                       \E r \in own :
                           /\ r \notin rows'
                           /\ \A q \in own : q.id <= r.id
                 /\ own # {} => rows' # rows ]_vars

\* The category a record is reported under
LabelOf(r) ==
    IF r.category = NULL \/ r.category = <<"">> THEN "Boshqa" ELSE r.category[1]

RECURSIVE TotalsSum(_)
\* The sum of the totals of a list of (category, total)
TotalsSum(s) == IF s = <<>> THEN 0 ELSE Head(s)[2] + TotalsSum(Tail(s))

\* C22: for every user and month, the totals of get_month_category_totals
\* add up to get_month_total, every record of the month is reported under
\* exactly one entry of the list, and each entry's total is the sum of the
\* records reported under it.
C22_CategoryTotalsSumToMonthTotal ==
    \A u \in KnownUsers : \A y \in Years : \A m \in Months :
        \A result \in MonthCategoryTotals(rows, u, y, m) :
            /\ TotalsSum(result) = MonthTotal(rows, u, y, m)
            /\ \A r \in InMonth(rows, u, y, m) :
                  Cardinality({i \in 1..Len(result) :
                                 result[i][1] = LabelOf(r)}) = 1
            /\ \A i \in 1..Len(result) :
                  result[i][2] =
                     AmountSum({r \in InMonth(rows, u, y, m) :
                                  LabelOf(r) = result[i][1]})

\* C22 witness: a breakdown has been asked of a month that holds three
\* records of the user, two of them with the same amount and without a
\* category and one with a category of its own.
C22_Witness ==
    /\ op.name = "get_month_category_totals"
    /\ Len(ret.v) = 2
    /\ LET m == InMonth(rows, op.user_id, op.year, op.month)
       IN  /\ Cardinality(m) = 3
           /\ \E r \in m : \E q \in m :
                 r # q /\ r.amount = q.amount /\ LabelOf(r) = LabelOf(q)
           /\ TotalsSum(ret.v) = MonthTotal(rows, op.user_id, op.year, op.month)

====
